---- MODULE Spec2Model ----
(***************************************************************************)
(* Model of the AOHI detection / correlation pipeline:                     *)
(*   detectors/seasonal_zscore.py, detectors/ewma.py, detectors/latency.py,*)
(*   detectors/revenue.py, detectors/geo.py and rca_engine/engine.py.      *)
(*                                                                         *)
(* Time is in minutes.  A CSV file is a record [exists, cols, rows]; rows  *)
(* is a set of row groups, a group standing for n identical rows.          *)
(* Floats are modelled exactly: a float is a record                        *)
(*   [kind |-> "float", cls, sgn, sqnum, sqden]                            *)
(* with cls in {"finite","inf","-inf","nan"} and, when finite, the value   *)
(* sgn * sqrt(sqnum / sqden).  A Python str is [kind |-> "str", cls |-> s].*)
(***************************************************************************)
EXTENDS Integers, Sequences, FiniteSets, TLC

VARIABLES
    tx,             \* data/transactions.csv
    sys,            \* data/system_metrics.csv
    rules,          \* rca_engine/rules.json as loaded by load_rules
    playbooks,      \* playbooks/playbooks.csv as loaded by load_playbooks
    pc,             \* position in run_rca / in a direct detector call
    z_anoms, ewma_anoms, latency_anoms, revenue_anoms, geo_anoms,
    failed_series,  \* run_rca: bucket -> failed_count
    todo,           \* run_rca: sorted(timestamps) still to be processed
    results,        \* run_rca: the incident list built so far
    exc,            \* exception that escaped run_rca ("none" if none)
    cfg,            \* keyword arguments of a direct detector call
    det_out         \* what a direct detector call returned

vars == <<tx, sys, rules, playbooks, pc, z_anoms, ewma_anoms, latency_anoms,
          revenue_anoms, geo_anoms, failed_series, todo, results, exc,
          cfg, det_out>>

\* stream_simulator/producer.py and stream_simulator/consumer.py
VARIABLES
    repeat,         \* produce: the --repeat flag
    batch,          \* consume: events per batch
    stream_dir,     \* the stream folder: event file -> "partial" or "complete"
    p_pc,           \* produce: position
    p_idx,          \* produce: idx, the number of the next event file
    ingested_csv,   \* the ingested CSV: the events appended, in order
    c_pc,           \* consume: position
    files,          \* consume: the listed files still to be ingested in this cycle
    c_count,        \* consume: count, the files ingested in this cycle
    c_exc,          \* consume: the exception that ended it ("none" if none)
    detector_runs   \* consume: the number of detector runs so far

stream_vars == <<repeat, batch, stream_dir, p_pc, p_idx, ingested_csv, c_pc, files,
                 c_count, c_exc, detector_runs>>

\* streaming/producer.py and streaming/consumer.py
VARIABLES
    stream_file,    \* runtime/stream_events.csv: [exists, rows], rows = data rows in it
    total_rows,     \* producer: len(df), the rows to send in one run
    sp_pc,          \* producer: position
    sent,           \* producer: rows written in this run
    runs,           \* the number of producer runs started
    last_seen_rows, \* consumer: last_seen_rows
    appended,       \* rows appended to the stream file since the last report
    report          \* consumer: the last metrics report, with the value of appended
                    \* when it was made

tail_vars == <<stream_file, total_rows, sp_pc, sent, runs, last_seen_rows, appended, report>>

\* api/fastapi_app.py : run_detectors
VARIABLES
    detectors_dir,  \* the modules found in detectors/
    broken,         \* the modules whose import fails
    api_pc,         \* run_detectors: position
    modules,        \* run_detectors: the discovered modules still to be run
    out             \* run_detectors: the records collected so far

api_vars == <<detectors_dir, broken, api_pc, modules, out>>

\* tools/generate_report.py : load_rca_data
VARIABLES
    rca_importable, \* whether "from rca_engine.engine import run_rca" succeeds
    data_json,      \* rca.json, incidents_full.json, incidents.json of the data directory
    rca_data        \* what load_rca_data returned

report_vars == <<rca_importable, data_json, rca_data>>

\* api/fastapi_app.py : report_pro
VARIABLES
    out_path,       \* data/AOHI_FromAPI.pdf: 0 when absent, else who wrote it
                    \* (the number of the request, or CliRun for a run by hand)
    request,        \* the number of the request being served, or of the last one
    force,          \* the force parameter of the request
    rp_pc,          \* report_pro: position
    proc,           \* how subprocess.run ended
    response,       \* the answer to the last request
    report_script   \* api/generate_report_pro.py exists

pro_vars == <<out_path, request, force, rp_pc, proc, response, report_script>>

\* the state of the programs that are not running
other_vars == <<stream_vars, tail_vars, api_vars, report_vars, pro_vars>>
outside_stream == <<vars, tail_vars, api_vars, report_vars, pro_vars>>
outside_tail == <<vars, stream_vars, api_vars, report_vars, pro_vars>>
outside_api == <<vars, stream_vars, tail_vars, report_vars, pro_vars>>
outside_report == <<stream_vars, tail_vars, api_vars, pro_vars>>
outside_pro == <<vars, stream_vars, tail_vars, api_vars, report_vars>>
all_vars == <<vars, other_vars>>

----------------------------------------------------------------------------
(* Frequencies of run_rca, in minutes *)

Freq == 5       \* freq="5T", the merge frequency
Hour == 60      \* freq="1H", the frequency of the revenue detector

----------------------------------------------------------------------------
(* Bounds of the model *)

MaxGroups == 3          \* row groups in the transactions file
MaxSysGroups == 3       \* row groups in the system-metrics file
MaxDetGroups == 4       \* row groups in the transactions file of a direct detector call
HistoryLen == 6         \* buckets of steady traffic before the last bucket of a long run
MaxRevGroups == 3       \* row groups in the transactions file of a revenue call
MaxEvents == 4          \* event files written by the stream producer
MaxRows == 3            \* rows that the live producer sends in one run
MaxRuns == 2            \* runs of the live producer
MaxApiGroups == 2       \* row groups in the transactions file that the API reads
MaxReportGroups == 2    \* row groups in the transactions file of the report generator

Times == {2, 7, 61, 66}                 \* timestamps (minutes)
CountryOrder == <<"IN", "US">>          \* country values, in sort order
Countries == {CountryOrder[i] : i \in 1..Len(CountryOrder)}
Statuses == {"success", "failed"}
Amounts == {1}
Mult == {3, 5}                          \* rows per group
Latencies == {1, 4, 9}                  \* latency_ms values
SysMult == {1, 3}

----------------------------------------------------------------------------
(* Generic helpers *)

Floor(ts, freq) == (ts \div freq) * freq

\* A timestamp cell that is not a date is kept as a negative number
BadTs == 0 - 1
Parseable(ts) == ts >= 0
HasUnparsable(rows) == \E g \in rows : ~Parseable(g.ts)

Min(S) == CHOOSE x \in S : \A y \in S : x <= y

RECURSIVE SortedSeq(_)
SortedSeq(S) == IF S = {} THEN <<>>
                ELSE <<Min(S)>> \o SortedSeq(S \ {Min(S)})

RECURSIVE SumN(_)
SumN(G) == IF G = {} THEN 0
           ELSE LET g == CHOOSE x \in G : TRUE IN g.n + SumN(G \ {g})

RECURSIVE SumAmount(_)
SumAmount(G) == IF G = {} THEN 0
                ELSE LET g == CHOOSE x \in G : TRUE
                     IN g.n * g.amount + SumAmount(G \ {g})

RECURSIVE SeqSum(_)
SeqSum(s) == IF s = <<>> THEN 0 ELSE Head(s) + SeqSum(Tail(s))

RECURSIVE SeqSumSq(_)
SeqSumSq(s) == IF s = <<>> THEN 0 ELSE Head(s) * Head(s) + SeqSumSq(Tail(s))

Abs(x) == IF x < 0 THEN 0 - x ELSE x
Sgn(x) == IF x < 0 THEN 0 - 1 ELSE IF x = 0 THEN 0 ELSE 1

\* the last (at most w) elements of s[1..i-1]: shift(1).rolling(w, min_periods=1)
Prior(s, i, w) == SubSeq(s, IF i - w < 1 THEN 1 ELSE i - w, i - 1)

----------------------------------------------------------------------------
(* Floats *)

Finite(sgn, sqnum, sqden) ==
    [kind |-> "float", cls |-> "finite", sgn |-> sgn, sqnum |-> sqnum, sqden |-> sqden]
NonFinite(c) == [kind |-> "float", cls |-> c, sgn |-> 0, sqnum |-> 0, sqden |-> 1]
Str(s) == [kind |-> "str", cls |-> s, sgn |-> 0, sqnum |-> 0, sqden |-> 1]

\* math.isfinite
IsFinite(x) == x.kind = "float" /\ x.cls = "finite"
\* a raw inf / -inf / nan float
IsRawNonFinite(x) == x.kind = "float" /\ x.cls # "finite"

\* x > tn/td for a float x and a threshold tn/td >= 0 (comparisons with nan are False)
FloatGt(x, tn, td) ==
    \/ x.cls = "inf"
    \/ /\ x.cls = "finite"
       /\ x.sgn > 0
       /\ td * td * x.sqnum > tn * tn * x.sqden

\* the z-score with the mean of an empty history filled with 0
ZScoreOf_MeanFilled(x, prior, unit) ==
    LET n == Len(prior)
        S == SeqSum(prior)
        V == n * SeqSumSq(prior) - S * S
        d == n * x - S
    IN IF n = 0 THEN Finite(Sgn(x), x * x, unit * unit)
       ELSE IF n = 1 THEN Finite(Sgn(d), d * d, unit * unit)
       ELSE IF V = 0
            THEN (IF d > 0 THEN NonFinite("inf")
                  ELSE IF d < 0 THEN NonFinite("-inf") ELSE NonFinite("nan"))
            ELSE Finite(Sgn(d), (n - 1) * d * d, n * V)

\* (x - mean(prior)) / std(prior) with std(ddof=1) and std.fillna(1);
\* x and prior are given in 1/unit (the filled-in std of 1.0 is not scale free)
ZScoreOf(x, prior, unit) ==
    LET n == Len(prior)
        S == SeqSum(prior)
        V == n * SeqSumSq(prior) - S * S
        d == n * x - S
    IN IF n = 0 THEN NonFinite("nan")
       ELSE IF n = 1 THEN Finite(Sgn(d), d * d, unit * unit)
       ELSE IF V = 0
            THEN (IF d > 0 THEN NonFinite("inf")
                  ELSE IF d < 0 THEN NonFinite("-inf") ELSE NonFinite("nan"))
            ELSE Finite(Sgn(d), (n - 1) * d * d, n * V)

----------------------------------------------------------------------------
(* detectors/seasonal_zscore.py *)

\* safe_num without the isfinite test
safe_num_unchecked(x) == x

safe_num(x) == IF x.kind = "float" THEN (IF IsFinite(x) THEN x ELSE Str(x.cls)) ELSE x

Buckets(rows, freq) == {Floor(g.ts, freq) : g \in rows}

FailedIn(rows, freq, b) ==
    SumN({g \in rows : Floor(g.ts, freq) = b /\ g.status # "success"})

TotalIn(rows, freq, b) == SumN({g \in rows : Floor(g.ts, freq) = b})

\* the bucket index of agg and its failed_count column, in index order
FailedCounts(rows, freq) ==
    LET idx == SortedSeq(Buckets(rows, freq))
    IN [i \in 1..Len(idx) |-> FailedIn(rows, freq, idx[i])]

Ok(v) == [exc |-> "none", val |-> v]
Raise(e) == [exc |-> e, val |-> <<>>]

\* agg: one row per bucket, in index order, with the rolling z-score
seasonal_agg(rows, freq, window) ==
    LET idx == SortedSeq(Buckets(rows, freq))
        fc  == FailedCounts(rows, freq)
    IN [i \in 1..Len(idx) |->
          [bucket       |-> idx[i],
           total_count  |-> TotalIn(rows, freq, idx[i]),
           failed_count |-> fc[i],
           zscore       |-> ZScoreOf(fc[i], Prior(fc, i, window), 1)]]

\* (agg['zscore'] > z_thresh) & (agg['failed_count'] >= min_failed)
SeasonalAnomaly(row, z_thresh, min_failed) ==
    FloatGt(row.zscore, z_thresh[1], z_thresh[2]) /\ row.failed_count >= min_failed

\* z_thresh is a fraction <<num, den>>
detect_failed_tx_spike(file, freq, window, z_thresh, min_failed) ==
    IF ~file.exists THEN Raise("FileNotFoundError")
    ELSE IF file.rows = {} THEN Ok(<<>>)
    \* read_csv leaves the column as text; .dt on it fails
    ELSE IF HasUnparsable(file.rows) THEN Raise("AttributeError")
    ELSE IF "status" \notin file.cols THEN Raise("KeyError")
    ELSE
      LET anomalies == SelectSeq(seasonal_agg(file.rows, freq, window),
                                 LAMBDA row : SeasonalAnomaly(row, z_thresh, min_failed))
      IN Ok([j \in 1..Len(anomalies) |->
               [timestamp |-> anomalies[j].bucket,
                failed    |-> anomalies[j].failed_count,
                zscore    |-> safe_num(anomalies[j].zscore)]])

----------------------------------------------------------------------------
(* detectors/ewma.py *)

RECURSIVE Pow(_, _)
Pow(b, e) == IF e = 0 THEN 1 ELSE b * Pow(b, e - 1)

\* ewm(span, adjust=False).mean() of fc, every value multiplied by D = (span+1)^(Len(fc)-1)
RECURSIVE EwmaScaled(_, _, _, _)
EwmaScaled(fc, span, D, i) ==
    IF i = 1 THEN fc[1] * D
    ELSE ((span - 1) * EwmaScaled(fc, span, D, i - 1) + 2 * fc[i] * D) \div (span + 1)

\* score[i] = |resid[i]| / roll_std[i].replace(0, 1.0), where
\* roll_std = resid.shift(1).rolling(w).std().fillna(resid.std()); R = resid * D
EwmaScore(R, D, w, i) ==
    LET N == Len(R)
        win == IF i - 1 >= w THEN SubSeq(R, i - w, i - 1) ELSE R
        m == Len(win)
        S == SeqSum(win)
        V == m * SeqSumSq(win) - S * S
    IN IF m < 2 THEN NonFinite("nan")
       ELSE IF V = 0 THEN Finite(Sgn(Abs(R[i])), R[i] * R[i], D * D)
       ELSE Finite(Sgn(Abs(R[i])), R[i] * R[i] * m * (m - 1), V)

RECURSIVE GCD(_, _)
GCD(a, b) == IF b = 0 THEN Abs(a) ELSE GCD(b, a % b)

RECURSIVE SeqGCD(_)
SeqGCD(s) == IF s = <<>> THEN 0 ELSE GCD(Head(s), SeqGCD(Tail(s)))

\* agg with the score column added, one row per bucket.  The residuals are kept
\* as the integers R0[i] = resid[i] * D0; R and D are R0 and D0 divided by their
\* common divisor (the same rationals, written with smaller numbers).
ewma_agg(rows, freq, span) ==
    LET idx == SortedSeq(Buckets(rows, freq))
        fc  == FailedCounts(rows, freq)
        N   == Len(fc)
        D0  == Pow(span + 1, N - 1)
        R0  == [i \in 1..N |-> fc[i] * D0 - EwmaScaled(fc, span, D0, i)]
        g   == GCD(D0, SeqGCD(R0))
        D   == D0 \div g
        R   == [i \in 1..N |-> R0[i] \div g]
        w   == IF span > 3 THEN span ELSE 3
    IN [i \in 1..N |->
          [bucket       |-> idx[i],
           total_count  |-> TotalIn(rows, freq, idx[i]),
           failed_count |-> fc[i],
           score        |-> EwmaScore(R, D, w, i)]]

\* (agg['score'] > k) & (agg['failed_count'] >= min_failed)
EwmaAnomaly(row, k, min_failed) ==
    FloatGt(row.score, k, 1) /\ row.failed_count >= min_failed

detect_ewma_failed(file, freq, span, k, min_failed) ==
    IF ~file.exists THEN Raise("FileNotFoundError")
    ELSE IF file.rows = {} THEN Ok(<<>>)
    \* compute_failed_buckets: pd.to_datetime fails on the text column
    ELSE IF HasUnparsable(file.rows) THEN Raise("ValueError")
    ELSE IF "status" \notin file.cols THEN Raise("KeyError")
    ELSE
      LET anomalies == SelectSeq(ewma_agg(file.rows, freq, span),
                                 LAMBDA row : EwmaAnomaly(row, k, min_failed))
      IN Ok([j \in 1..Len(anomalies) |->
               [timestamp |-> anomalies[j].bucket,
                failed    |-> anomalies[j].failed_count,
                score     |-> anomalies[j].score]])

----------------------------------------------------------------------------
(* detectors/latency.py *)

\* the k-th smallest latency_ms of the rows in G
Kth(G, k) == Min({v \in {g.latency_ms : g \in G} :
                    SumN({g \in G : g.latency_ms <= v}) >= k})

\* twice the median of latency_ms over the rows in G
Median2(G) ==
    LET c == SumN(G)
    IN IF c % 2 = 1 THEN 2 * Kth(G, (c + 1) \div 2)
       ELSE Kth(G, c \div 2) + Kth(G, c \div 2 + 1)

LatencyParams == {"csv_path", "ts_col", "latency_col", "freq", "window", "z_thresh", "min_count"}

Arg(kw, name, default) == IF name \in DOMAIN kw THEN kw[name] ELSE default

\* agg: per bucket the median latency (doubled), the row count and the rolling z-score
latency_agg(rows, freq, window) ==
    LET idx == SortedSeq(Buckets(rows, freq))
        InB(i) == {g \in rows : Floor(g.ts, freq) = idx[i]}
        med == [i \in 1..Len(idx) |-> Median2(InB(i))]
    IN [i \in 1..Len(idx) |->
          [bucket          |-> idx[i],
           latency_median2 |-> med[i],
           count           |-> SumN(InB(i)),
           zscore          |-> ZScoreOf(med[i], Prior(med, i, window), 2)]]

\* the filter without its sample-count floor
LatencyAnomaly_NoMinCount(row, z_thresh, min_count) ==
    FloatGt(row.zscore, z_thresh[1], z_thresh[2])

\* (agg["zscore"] > z_thresh) & (agg["count"] >= min_count)
LatencyAnomaly(row, z_thresh, min_count) ==
    FloatGt(row.zscore, z_thresh[1], z_thresh[2]) /\ row.count >= min_count

\* the detector without its test for the latency column
detect_latency_spike_NoColumnCheck(file, kw) ==
    IF ~(DOMAIN kw \subseteq LatencyParams) THEN Raise("TypeError")
    ELSE IF ~file.exists THEN Raise("FileNotFoundError")
    ELSE IF file.rows = {} THEN Ok(<<>>)
    ELSE Raise("KeyError")

\* kw: the keyword arguments of the call; z_thresh is a fraction <<num, den>>
detect_latency_spike(file, kw) ==
    IF ~(DOMAIN kw \subseteq LatencyParams) THEN Raise("TypeError")
    ELSE IF ~file.exists THEN Raise("FileNotFoundError")
    ELSE IF file.rows = {} THEN Ok(<<>>)
    ELSE IF "latency_ms" \notin file.cols THEN Ok(<<>>)
    ELSE IF HasUnparsable(file.rows) THEN Raise("AttributeError")
    ELSE
      LET freq      == Arg(kw, "freq", 5)
          window    == Arg(kw, "window", 6)
          z_thresh  == Arg(kw, "z_thresh", <<5, 2>>)
          min_count == Arg(kw, "min_count", 10)
          anomalies == SelectSeq(latency_agg(file.rows, freq, window),
                                 LAMBDA row : LatencyAnomaly(row, z_thresh, min_count))
      IN Ok([j \in 1..Len(anomalies) |->
               [timestamp       |-> anomalies[j].bucket,
                latency_median2 |-> anomalies[j].latency_median2,
                zscore          |-> anomalies[j].zscore,
                count           |-> anomalies[j].count]])

----------------------------------------------------------------------------
(* detectors/revenue.py *)

\* twice the median of a non-empty sequence of integers
SeqMedian2(s) ==
    LET n == Len(s)
        srt == SortSeq(s, LAMBDA a, b : a < b)
    IN IF n % 2 = 1 THEN 2 * srt[(n + 1) \div 2]
       ELSE srt[n \div 2] + srt[n \div 2 + 1]

\* the test without the revenue floor
RevenueDrop_NoFloor(cur, baseline2, factor, min_revenue) ==
    /\ baseline2 > 0
    /\ 2 * factor[2] * cur < factor[1] * baseline2

\* not (baseline <= 0), cur < baseline * factor and cur >= min_revenue;
\* baseline2 is twice the baseline and factor a fraction <<num, den>>
RevenueDrop(cur, baseline2, factor, min_revenue) ==
    /\ baseline2 > 0
    /\ 2 * factor[2] * cur < factor[1] * baseline2
    /\ cur >= min_revenue

\* factor is a fraction <<num, den>>
detect_revenue_drop(file, freq, window, factor, min_revenue) ==
    IF ~file.exists THEN Raise("FileNotFoundError")
    ELSE IF file.rows = {} THEN Ok(<<>>)
    ELSE IF HasUnparsable(file.rows) THEN Raise("AttributeError")
    ELSE IF "status" \notin file.cols THEN Raise("KeyError")
    ELSE IF "amount" \notin file.cols THEN Raise("KeyError")
    ELSE
      LET succ == {g \in file.rows : g.status = "success"}
          idx  == SortedSeq(Buckets(succ, freq))
          revenue == [i \in 1..Len(idx) |->
                        SumAmount({g \in succ : Floor(g.ts, freq) = idx[i]})]
          \* rolling_med.fillna(0), doubled
          baseline2(i) == IF i = 1 THEN 0 ELSE SeqMedian2(Prior(revenue, i, window))
          hits == SelectSeq([i \in 1..Len(idx) |-> i],
                            LAMBDA i : RevenueDrop(revenue[i], baseline2(i), factor,
                                                   min_revenue))
      IN Ok([j \in 1..Len(hits) |->
               [timestamp       |-> idx[hits[j]],
                current_revenue |-> revenue[hits[j]],
                baseline2       |-> baseline2(hits[j])]])

----------------------------------------------------------------------------
(* detectors/geo.py *)

RECURSIVE Concat(_)
Concat(ss) == IF ss = <<>> THEN <<>> ELSE Head(ss) \o Concat(Tail(ss))

detect_geo_failures(file, freq, threshold) ==
    IF ~file.exists THEN Raise("FileNotFoundError")
    ELSE IF file.rows = {} THEN Ok(<<>>)
    ELSE IF HasUnparsable(file.rows) THEN Raise("AttributeError")
    ELSE IF "status" \notin file.cols THEN Raise("KeyError")
    ELSE
      LET failed == {g \in file.rows : g.status # "success"}
      IN IF failed = {} THEN Ok(<<>>)
         ELSE IF "country" \notin file.cols THEN Raise("KeyError")
         ELSE
           LET idx == SortedSeq(Buckets(failed, freq))
               cnt(b, c) == SumN({g \in failed : Floor(g.ts, freq) = b /\ g.country = c})
               \* groupby(['bucket', country]) iterates in (bucket, country) order
               ofBucket(b) ==
                   LET cs == SelectSeq(CountryOrder, LAMBDA c : cnt(b, c) >= threshold
                                                               /\ cnt(b, c) > 0)
                   IN [j \in 1..Len(cs) |->
                         [timestamp |-> b, country |-> cs[j], failed_count |-> cnt(b, cs[j])]]
           IN Ok(Concat([i \in 1..Len(idx) |-> ofBucket(idx[i])]))

----------------------------------------------------------------------------
(* Inputs *)

TxGroups == [ts : Times, status : Statuses, country : Countries,
             amount : Amounts, n : Mult]

SysGroups == [ts : Times, latency_ms : Latencies, n : SysMult]

\* the subsets of S with at most k elements
RECURSIVE SubsetsUpTo(_, _)
SubsetsUpTo(S, k) ==
    IF k = 0 THEN {{}}
    ELSE LET P == SubsetsUpTo(S, k - 1) IN P \cup {T \cup {x} : T \in P, x \in S}

TxCols == {"timestamp", "status", "amount", "country"}
TxColSets == {TxCols} \cup {TxCols \ {c} : c \in {"status", "amount", "country"}}
SysColSets == {{"timestamp", "latency_ms"}, {"timestamp"}}

NoFile == [exists |-> FALSE, cols |-> {}, rows |-> {}]

TxFiles == [exists : {TRUE}, cols : TxColSets, rows : SubsetsUpTo(TxGroups, MaxGroups)]
SysFiles == [exists : {TRUE}, cols : SysColSets, rows : SubsetsUpTo(SysGroups, MaxSysGroups)]

\* A long run: HistoryLen consecutive buckets of identical traffic, then one more
\* bucket (the span-6 EWMA needs six earlier residuals for its rolling scale)
LongRuns ==
    {{[ts |-> 100 + Freq * i, status |-> st, country |-> c, amount |-> a, n |-> m] :
          i \in 0..(HistoryLen - 1)} \cup {last} :
        st \in Statuses, c \in Countries, a \in Amounts, m \in Mult,
        last \in [ts : {100 + Freq * HistoryLen + 2}, status : Statuses,
                  country : Countries, amount : Amounts, n : Mult]}

LongFiles == [exists : {TRUE}, cols : {TxCols}, rows : LongRuns]

\* Tables in which one timestamp cell is not a date
BadTxGroups == [ts : {BadTs}, status : Statuses, country : {"IN"}, amount : Amounts, n : {5}]
BadTxFiles ==
    [exists : {TRUE}, cols : {TxCols},
     rows : {T \cup {g} : T \in SubsetsUpTo(TxGroups, MaxGroups - 2), g \in BadTxGroups}]
BadSysFiles ==
    [exists : {TRUE}, cols : {{"timestamp", "latency_ms"}},
     rows : {T \cup {[ts |-> BadTs, latency_ms |-> 1, n |-> 1]} :
               T \in SubsetsUpTo(SysGroups, MaxSysGroups - 2)}]

\* rules.json: absent (load_rules returns {}) or giving a threshold
NoRules == <<>>
SpikeThreshold == 5
SpikeRules == [failed_tx_spike |-> [threshold |-> SpikeThreshold]]
RuleSets == {NoRules, SpikeRules}

\* playbooks.csv
PlaybookTable ==
    << [root_cause |-> "failed_tx_spike", priority |-> "P1", owner |-> "payments", steps |-> "s1"],
       [root_cause |-> "failed_tx_spike", priority |-> "P3", owner |-> "sre", steps |-> "s2"],
       [root_cause |-> "geo_failure", priority |-> "P2", owner |-> "regional", steps |-> "s3"] >>
PlaybookTables == {PlaybookTable}

\* Python's None
None == "None"

Get(d, key, default) == IF key \in DOMAIN d THEN d[key] ELSE default

----------------------------------------------------------------------------
(* rca_engine/engine.py : run_rca *)


NoCfg == <<>>

\* the streaming programs have not been started
StreamIdle ==
    /\ repeat = FALSE /\ batch = 1 /\ stream_dir = <<>> /\ p_pc = "off" /\ p_idx = 0
    /\ ingested_csv = <<>> /\ c_pc = "off" /\ files = <<>> /\ c_count = 0
    /\ c_exc = "none" /\ detector_runs = 0

\* the live-metrics programs have not been started
NoReport == [new_rows |-> 0, current_rows |-> 0, appended |-> 0]
TailIdle ==
    /\ stream_file = [exists |-> FALSE, rows |-> 0] /\ total_rows = 0 /\ sp_pc = "off"
    /\ sent = 0 /\ runs = 0 /\ last_seen_rows = 0 /\ appended = 0 /\ report = NoReport

\* no request is being served
ApiIdle ==
    /\ detectors_dir = {} /\ broken = {} /\ api_pc = "off" /\ modules = <<>> /\ out = <<>>

\* the report generator has not been started
NoData == [source |-> "none", incidents |-> <<>>]
ReportIdle == rca_importable = TRUE /\ data_json = <<>> /\ rca_data = NoData

\* no report has been asked for
NoResponse == [status |-> 0, pdf |-> 0]
ProIdle ==
    /\ out_path = 0 /\ request = 0 /\ force = FALSE /\ rp_pc = "off" /\ proc = "none"
    /\ response = NoResponse /\ report_script = TRUE

OtherIdle == StreamIdle /\ TailIdle /\ ApiIdle /\ ReportIdle /\ ProIdle

Init ==
    /\ OtherIdle
    /\ \/ tx \in TxFiles \cup LongFiles \cup BadTxFiles /\ sys = NoFile
       \/ tx = NoFile /\ sys \in SysFiles \cup BadSysFiles
    /\ rules \in RuleSets
    /\ playbooks \in PlaybookTables
    /\ pc = "seasonal_zscore"
    /\ z_anoms = <<>> /\ ewma_anoms = <<>> /\ latency_anoms = <<>>
    /\ revenue_anoms = <<>> /\ geo_anoms = <<>>
    /\ failed_series = <<>>
    /\ todo = <<>>
    /\ results = <<>>
    /\ exc = "none"
    /\ cfg = NoCfg
    /\ det_out = Ok(<<>>)

\* try: ... except Exception: anoms = []
Caught(r) == IF r.exc = "none" THEN r.val ELSE <<>>

RcaSeasonalCall == detect_failed_tx_spike(tx, Freq, 6, <<1, 1>>, 5)
RcaEwmaCall == detect_ewma_failed(tx, Freq, 6, 2, 5)
RcaLatencyCall ==
    detect_latency_spike(sys, [ts_col |-> "timestamp", freq |-> Freq, factor |-> <<3, 2>>,
                               prior_minutes |-> 30, min_count |-> 3])
RcaRevenueCall == detect_revenue_drop(tx, Hour, 6, <<7, 10>>, 1)
RcaGeoCall == detect_geo_failures(tx, Freq, 5)

RunSeasonal ==
    /\ pc = "seasonal_zscore"
    /\ z_anoms' = Caught(RcaSeasonalCall)
    /\ pc' = "ewma"
    /\ UNCHANGED other_vars
    /\ UNCHANGED <<tx, sys, rules, playbooks, ewma_anoms, latency_anoms, revenue_anoms,
                   geo_anoms, failed_series, todo, results, exc, cfg, det_out>>

RunEwma ==
    /\ pc = "ewma"
    /\ ewma_anoms' = Caught(RcaEwmaCall)
    /\ pc' = "latency"
    /\ UNCHANGED other_vars
    /\ UNCHANGED <<tx, sys, rules, playbooks, z_anoms, latency_anoms, revenue_anoms,
                   geo_anoms, failed_series, todo, results, exc, cfg, det_out>>

RunLatency ==
    /\ pc = "latency"
    /\ latency_anoms' = Caught(RcaLatencyCall)
    /\ pc' = "revenue"
    /\ UNCHANGED other_vars
    /\ UNCHANGED <<tx, sys, rules, playbooks, z_anoms, ewma_anoms, revenue_anoms,
                   geo_anoms, failed_series, todo, results, exc, cfg, det_out>>

RunRevenue ==
    /\ pc = "revenue"
    /\ revenue_anoms' = Caught(RcaRevenueCall)
    /\ pc' = "geo"
    /\ UNCHANGED other_vars
    /\ UNCHANGED <<tx, sys, rules, playbooks, z_anoms, ewma_anoms, latency_anoms,
                   geo_anoms, failed_series, todo, results, exc, cfg, det_out>>

RunGeo ==
    /\ pc = "geo"
    /\ geo_anoms' = Caught(RcaGeoCall)
    /\ pc' = "load"
    /\ UNCHANGED other_vars
    /\ UNCHANGED <<tx, sys, rules, playbooks, z_anoms, ewma_anoms, latency_anoms,
                   revenue_anoms, failed_series, todo, results, exc, cfg, det_out>>

\* pd.to_datetime of the timestamp column, then the floor: the bucket of each row
bucket_df(file, freq) ==
    IF HasUnparsable(file.rows) THEN Raise("ValueError")
    ELSE Ok(Buckets(file.rows, freq))

\* agg: bucket -> total_count and failed_count, over all buckets of the table
compute_failed_counts(file, freq) ==
    IF bucket_df(file, freq).exc # "none" THEN bucket_df(file, freq)
    ELSE IF "status" \notin file.cols THEN Raise("KeyError")
    ELSE Ok([b \in Buckets(file.rows, freq) |->
               [total_count  |-> TotalIn(file.rows, freq, b),
                failed_count |-> FailedIn(file.rows, freq, b)]])

\* the set of floored finding timestamps (add_detector_ts over the five lists)
add_detector_ts(list_of_dicts, freq) ==
    {Floor(list_of_dicts[i].timestamp, freq) : i \in 1..Len(list_of_dicts)}

sorted_Descending(timestamps) ==
    LET s == SortedSeq(timestamps) IN [i \in 1..Len(s) |-> s[Len(s) + 1 - i]]

\* sorted(timestamps): the order in which the buckets are turned into incidents
sorted(timestamps) == SortedSeq(timestamps)

\* step 3 (load and bucket the data) and step 4 (collect the timestamps)
LoadAndCollect ==
    /\ pc = "load"
    /\ LET sys_df == IF sys.exists /\ sys.rows # {} THEN bucket_df(sys, Freq) ELSE Ok({})
           failed_agg == IF sys_df.exc # "none" THEN sys_df
                         ELSE IF tx.exists /\ tx.rows # {}
                         THEN compute_failed_counts(tx, Freq) ELSE Ok(<<>>)
           timestamps == add_detector_ts(z_anoms, Freq) \cup add_detector_ts(ewma_anoms, Freq)
                         \cup add_detector_ts(latency_anoms, Freq)
                         \cup add_detector_ts(revenue_anoms, Freq)
                         \cup add_detector_ts(geo_anoms, Freq)
       IN IF failed_agg.exc # "none"
          THEN /\ exc' = failed_agg.exc
               /\ pc' = "raised"
               /\ UNCHANGED <<failed_series, todo>>
          ELSE /\ failed_series' = [b \in DOMAIN failed_agg.val |->
                                       failed_agg.val[b].failed_count]
               /\ todo' = sorted(timestamps)
               /\ pc' = IF timestamps = {} THEN "done" ELSE "incidents"
               /\ exc' = exc
    /\ UNCHANGED other_vars
    /\ UNCHANGED <<tx, sys, rules, playbooks, z_anoms, ewma_anoms, latency_anoms,
                   revenue_anoms, geo_anoms, results, cfg, det_out>>

\* the elements of a finding list whose floored timestamp is the bucket
AtBucket(anoms, bucket) == SelectSeq(anoms, LAMBDA a : Floor(a.timestamp, Freq) = bucket)

Repeat(name, k) == [i \in 1..k |-> name]

\* detected_by with the revenue loop left out
detected_by_NoRevenue(bucket) ==
    Repeat("seasonal_zscore", Len(AtBucket(z_anoms, bucket)))
    \o Repeat("ewma", Len(AtBucket(ewma_anoms, bucket)))
    \o Repeat("latency", Len(AtBucket(latency_anoms, bucket)))
    \o Repeat("geo", Len(AtBucket(geo_anoms, bucket)))

detected_by(bucket) ==
    Repeat("seasonal_zscore", Len(AtBucket(z_anoms, bucket)))
    \o Repeat("ewma", Len(AtBucket(ewma_anoms, bucket)))
    \o Repeat("latency", Len(AtBucket(latency_anoms, bucket)))
    \o Repeat("revenue", Len(AtBucket(revenue_anoms, bucket)))
    \o Repeat("geo", Len(AtBucket(geo_anoms, bucket)))

\* the rule with a strict comparison
FailedRule_Strict(bucket) ==
    LET fc  == IF bucket \in DOMAIN failed_series THEN failed_series[bucket] ELSE 0
        thr == Get(Get(rules, "failed_tx_spike", <<>>), "threshold", 10)
    IN IF fc > thr
       THEN << [root_cause  |-> "failed_tx_spike",
                description |-> Get(Get(rules, "failed_tx_spike", <<>>), "description",
                                    "Large spike in failed transactions"),
                evidence    |-> [failed_count |-> fc, threshold |-> thr]] >>
       ELSE <<>>

\* the failed_tx_spike rule (from the failed counts)
FailedRule(bucket) ==
    LET fc  == IF bucket \in DOMAIN failed_series THEN failed_series[bucket] ELSE 0
        thr == Get(Get(rules, "failed_tx_spike", <<>>), "threshold", 10)
    IN IF fc >= thr
       THEN << [root_cause  |-> "failed_tx_spike",
                description |-> Get(Get(rules, "failed_tx_spike", <<>>), "description",
                                    "Large spike in failed transactions"),
                evidence    |-> [failed_count |-> fc, threshold |-> thr]] >>
       ELSE <<>>

LatencyRule(bucket) ==
    LET las == AtBucket(latency_anoms, bucket)
    IN [i \in 1..Len(las) |->
          [root_cause  |-> "payment_gateway_latency",
           description |-> Get(Get(rules, "payment_gateway_latency", <<>>), "description",
                               "Latency spike"),
           evidence    |-> [latency_median2 |-> Get(las[i], "latency_median2", None),
                            baseline |-> Get(las[i], "baseline", None)]]]

RevenueRule(bucket) ==
    LET ras == AtBucket(revenue_anoms, bucket)
    IN [i \in 1..Len(ras) |->
          [root_cause  |-> "revenue_drop",
           description |-> "Revenue drop detected (hourly)",
           evidence    |-> [current_revenue |-> ras[i].current_revenue,
                            baseline2 |-> ras[i].baseline2]]]

\* the rule attaching only the first geo finding of the bucket
GeoRule_FirstOnly(bucket) ==
    LET gas == AtBucket(geo_anoms, bucket)
    IN [i \in 1..(IF gas = <<>> THEN 0 ELSE 1) |->
          [root_cause  |-> "geo_failure",
           description |-> <<"Geo-specific failures in ", gas[i].country>>,
           evidence    |-> [country |-> gas[i].country,
                            failed_count |-> gas[i].failed_count]]]

\* geo evidence: one root cause per geo finding of the bucket
GeoRule(bucket) ==
    LET gas == AtBucket(geo_anoms, bucket)
    IN [i \in 1..Len(gas) |->
          [root_cause  |-> "geo_failure",
           description |-> <<"Geo-specific failures in ", gas[i].country>>,
           evidence    |-> [country |-> gas[i].country,
                            failed_count |-> gas[i].failed_count]]]

root_causes(bucket) ==
    FailedRule(bucket) \o LatencyRule(bucket) \o RevenueRule(bucket) \o GeoRule(bucket)

\* the lookup taking the last matching row instead of the first
PlaybooksFor_LastMatch(rcs) ==
    LET last(rc) == LET dfpb == SelectSeq(playbooks, LAMBDA r : r.root_cause = rc.root_cause)
                    IN IF dfpb = <<>> THEN <<>> ELSE <<dfpb[Len(dfpb)]>>
    IN Concat([i \in 1..Len(rcs) |-> last(rcs[i])])

\* the first playbook row of each root cause that has one, in root-cause order
PlaybooksFor(rcs) ==
    LET first(rc) == LET dfpb == SelectSeq(playbooks, LAMBDA r : r.root_cause = rc.root_cause)
                     IN IF dfpb = <<>> THEN <<>> ELSE <<Head(dfpb)>>
    IN Concat([i \in 1..Len(rcs) |-> first(rcs[i])])

\* one iteration of "for bucket in sorted(timestamps)"
ProcessBucket ==
    /\ pc = "incidents"
    /\ todo # <<>>
    /\ LET bucket == Head(todo)
           rcs == root_causes(bucket)
           entry == [incident_bucket |-> bucket,
                     detected_by     |-> detected_by(bucket),
                     root_causes     |-> rcs,
                     playbooks       |-> PlaybooksFor(rcs)]
       IN results' = Append(results, entry)
    /\ todo' = Tail(todo)
    /\ pc' = IF Tail(todo) = <<>> THEN "done" ELSE "incidents"
    /\ UNCHANGED other_vars
    /\ UNCHANGED <<tx, sys, rules, playbooks, z_anoms, ewma_anoms, latency_anoms,
                   revenue_anoms, geo_anoms, failed_series, exc, cfg, det_out>>

Next ==
    \/ RunSeasonal
    \/ RunEwma
    \/ RunLatency
    \/ RunRevenue
    \/ RunGeo
    \/ LoadAndCollect
    \/ ProcessBucket

Spec == Init /\ [][Next]_vars

----------------------------------------------------------------------------
(* Direct calls of the detectors (detectors/*.py __main__, run_all_detectors,  *)
(* run_extra_detectors, the API), with keyword arguments cfg                   *)

DefaultCfg ==
    [freq |-> 5,
     window |-> 6, z_thresh |-> <<1, 1>>, min_failed |-> 5,         \* seasonal_zscore.py:19-20
     span |-> 6, k |-> 3,                                           \* ewma.py:24-25
     lat_window |-> 6, lat_z_thresh |-> <<5, 2>>, min_count |-> 10, \* latency.py:22-24
     rev_freq |-> 60, rev_window |-> 6, factor |-> <<7, 10>>, min_revenue |-> 1, \* revenue.py:10-11
     threshold |-> 5]                                               \* geo.py:10

TxCfgs ==
    {[DefaultCfg EXCEPT !.window = w, !.z_thresh = z, !.min_failed = m] :
        w \in {2, 6}, z \in {<<1, 1>>, <<5, 2>>}, m \in {4, 5}}
    \cup {[DefaultCfg EXCEPT !.span = s, !.k = kk, !.min_failed = m] :
        s \in {2, 6}, kk \in {1, 2}, m \in {4, 5}}

LatCfgs ==
    {[DefaultCfg EXCEPT !.lat_window = w, !.lat_z_thresh = z, !.min_count = m] :
        w \in {1, 6}, z \in {<<1, 1>>, <<5, 2>>}, m \in {2, 3}}

\* transactions of one country and one amount
FlatGroups == {g \in TxGroups : g.country = CountryOrder[1] /\ g.amount = Min(Amounts)}

\* hourly revenue: transactions of one country over three hours
RevTimes == {2, 61, 66, 125}
RevAmounts == {0, 1, 5, 10}
RevGroups == [ts : RevTimes, status : Statuses, country : {CountryOrder[1]},
              amount : RevAmounts, n : {1}]
RevFiles == [exists : {TRUE}, cols : {TxCols}, rows : SubsetsUpTo(RevGroups, MaxRevGroups)]
RevCfgs ==
    {DefaultCfg,
     [DefaultCfg EXCEPT !.rev_window = 1],
     [DefaultCfg EXCEPT !.factor = <<1, 2>>],
     [DefaultCfg EXCEPT !.min_revenue = 3]}

DetTxFiles == [exists : {TRUE}, cols : {TxCols, TxCols \ {"status"}},
               rows : SubsetsUpTo(FlatGroups, MaxDetGroups)]

InitDet ==
    /\ OtherIdle
    /\ \/ tx \in DetTxFiles /\ sys = NoFile /\ cfg \in TxCfgs
       \/ tx = NoFile /\ sys \in SysFiles /\ cfg \in LatCfgs
       \/ tx \in RevFiles /\ sys = NoFile /\ cfg \in RevCfgs
    /\ rules = NoRules
    /\ playbooks \in PlaybookTables
    /\ pc = "call"
    /\ z_anoms = <<>> /\ ewma_anoms = <<>> /\ latency_anoms = <<>>
    /\ revenue_anoms = <<>> /\ geo_anoms = <<>>
    /\ failed_series = <<>>
    /\ todo = <<>>
    /\ results = <<>>
    /\ exc = "none"
    /\ det_out = Ok(<<>>)

Returned(name, r) ==
    /\ pc = "call"
    /\ pc' = name
    /\ det_out' = r
    /\ UNCHANGED other_vars
    /\ UNCHANGED <<tx, sys, rules, playbooks, z_anoms, ewma_anoms, latency_anoms,
                   revenue_anoms, geo_anoms, failed_series, todo, results, exc, cfg>>

CallSeasonal ==
    Returned("seasonal_zscore",
             detect_failed_tx_spike(tx, cfg.freq, cfg.window, cfg.z_thresh, cfg.min_failed))

CallEwma ==
    Returned("ewma", detect_ewma_failed(tx, cfg.freq, cfg.span, cfg.k, cfg.min_failed))

CallLatency ==
    Returned("latency",
             detect_latency_spike(sys, [freq |-> cfg.freq, window |-> cfg.lat_window,
                                        z_thresh |-> cfg.lat_z_thresh,
                                        min_count |-> cfg.min_count]))

CallRevenue ==
    Returned("revenue",
             detect_revenue_drop(tx, cfg.rev_freq, cfg.rev_window, cfg.factor, cfg.min_revenue))

CallGeo ==
    Returned("geo", detect_geo_failures(tx, cfg.freq, cfg.threshold))

NextDet ==
    \/ CallSeasonal
    \/ CallEwma
    \/ CallLatency
    \/ CallRevenue
    \/ CallGeo

SpecDet == InitDet /\ [][NextDet]_vars

----------------------------------------------------------------------------
(* Properties of run_rca (specification Spec) *)

Range(q) == {q[i] : i \in 1..Len(q)}

DetectorNames == {"seasonal_zscore", "ewma", "latency", "revenue", "geo"}

\* the finding list run_rca holds for each detector
Anoms == [seasonal_zscore |-> z_anoms, ewma |-> ewma_anoms, latency |-> latency_anoms,
          revenue |-> revenue_anoms, geo |-> geo_anoms]

\* the five detector calls of run_rca on the current input
RcaCalls == [seasonal_zscore |-> RcaSeasonalCall, ewma |-> RcaEwmaCall,
             latency |-> RcaLatencyCall, revenue |-> RcaRevenueCall, geo |-> RcaGeoCall]

IncidentsAt(bucket) == {j \in 1..Len(results) : results[j].incident_bucket = bucket}

\* C1: every incident in the list returned by run_rca has a non-empty root_causes
\* list (a fallback root cause is attached when no rule matches).
C1_FallbackGuarantee ==
    \A j \in 1..Len(results) : results[j].root_causes # <<>>

\* C2: at return, the floored bucket of every finding of every detector is the
\* bucket of exactly one incident, and a detector name is in an incident's
\* detected_by iff that detector has a finding whose floored timestamp is the
\* incident's bucket.
C2_CorrelationCompleteness ==
    pc = "done" =>
      /\ \A d \in DetectorNames : \A i \in 1..Len(Anoms[d]) :
            Cardinality(IncidentsAt(Floor(Anoms[d][i].timestamp, Freq))) = 1
      /\ \A j \in 1..Len(results) : \A d \in DetectorNames :
            (d \in Range(results[j].detected_by))
              <=> (\E i \in 1..Len(Anoms[d]) :
                     Floor(Anoms[d][i].timestamp, Freq) = results[j].incident_bucket)

\* C2 witness: run_rca returned two incidents, one of them detected by both the
\* seasonal z-score and the geo detector, the other one by the revenue detector.
C2_Witness ==
    /\ pc = "done"
    /\ \E j, l \in 1..Len(results) :
          /\ j # l
          /\ {"seasonal_zscore", "geo"} \subseteq Range(results[j].detected_by)
          /\ "revenue" \in Range(results[l].detected_by)

\* C3: whichever detector calls raise, run_rca completes, the other detectors'
\* findings are kept, and the incidents are those of the findings of the
\* detectors that did not raise.
C3_PartialFailureTolerance ==
    (\E d \in DetectorNames : RcaCalls[d].exc # "none") =>
      /\ pc # "raised"
      /\ pc = "done" =>
           /\ \A d \in DetectorNames :
                 Anoms[d] = IF RcaCalls[d].exc = "none" THEN RcaCalls[d].val ELSE <<>>
           /\ {results[j].incident_bucket : j \in 1..Len(results)}
                = UNION {add_detector_ts(RcaCalls[d].val, Freq) :
                           d \in {e \in DetectorNames : RcaCalls[e].exc = "none"}}

\* the detectors that read a column of the transactions table
NeedsColumn(c) ==
    IF c = "status" THEN {"seasonal_zscore", "ewma", "revenue", "geo"}
    ELSE IF c = "amount" THEN {"revenue"}
    ELSE {"geo"}

\* C4: a non-empty transactions table lacking status, amount or country never
\* makes run_rca raise; the detectors needing the column contribute no finding.
C4_MissingColumnDegrades ==
    \A c \in {"status", "amount", "country"} :
      (tx.exists /\ tx.rows # {} /\ c \notin tx.cols) =>
        /\ pc # "raised"
        /\ exc = "none"
        /\ pc = "done" => \A d \in NeedsColumn(c) : Anoms[d] = <<>>

\* the buckets the latency detector flags when called with the arguments of
\* run_rca that it accepts
LatencyFlagged ==
    detect_latency_spike(sys, [ts_col |-> "timestamp", freq |-> Freq, min_count |-> 3]).val

\* C5: for every bucket the latency detector's rule flags, run_rca returns an
\* incident for it, detected by 'latency', with a payment_gateway_latency root
\* cause carrying the finding's latency_median and baseline.
C5_LatencyRootCause ==
    pc = "done" =>
      \A i \in 1..Len(LatencyFlagged) :
        \E j \in 1..Len(results) :
          /\ results[j].incident_bucket = Floor(LatencyFlagged[i].timestamp, Freq)
          /\ "latency" \in Range(results[j].detected_by)
          /\ \E r \in 1..Len(results[j].root_causes) :
               LET rc == results[j].root_causes[r]
               IN /\ rc.root_cause = "payment_gateway_latency"
                  /\ rc.evidence.latency_median2 = LatencyFlagged[i].latency_median2
                  /\ rc.evidence.baseline # None

\* the number of geo findings of a country over the whole run
GeoOccurrences(c) == Len(SelectSeq(geo_anoms, LAMBDA g : g.country = c))

\* min(0.9, 0.3 + 0.1 * occurrences), in tenths
RegionalConfidence10(occ) == IF 3 + occ < 9 THEN 3 + occ ELSE 9

\* C8: when the geo findings of one country number at least 3 over the run, some
\* incident carries a regional_outage root cause with that country and count as
\* evidence and confidence min(0.9, 0.3 + 0.1 * occurrences).
C8_RegionalOutage ==
    pc = "done" =>
      \A c \in Countries :
        GeoOccurrences(c) >= 3 =>
          \E j \in 1..Len(results) : \E r \in 1..Len(results[j].root_causes) :
             LET rc == results[j].root_causes[r]
             IN /\ rc.root_cause = "regional_outage"
                /\ rc.evidence.country = c
                /\ rc.evidence.occurrences = GeoOccurrences(c)
                /\ rc.confidence10 = RegionalConfidence10(GeoOccurrences(c))

HasRootCause(inc, name) ==
    \E r \in 1..Len(inc.root_causes) : inc.root_causes[r].root_cause = name

\* C9: when a revenue-drop finding and a failed-transaction finding (seasonal
\* z-score or EWMA) fall in the same hour, the incident of that hour carries a
\* revenue_drop and a payment_issue root cause.
C9_PaymentIssue ==
    pc = "done" =>
      \A i \in 1..Len(revenue_anoms) :
        (\E f \in Range(z_anoms) \cup Range(ewma_anoms) :
            Floor(f.timestamp, Hour) = Floor(revenue_anoms[i].timestamp, Hour))
        => \E j \in 1..Len(results) :
             /\ results[j].incident_bucket = Floor(revenue_anoms[i].timestamp, Freq)
             /\ HasRootCause(results[j], "revenue_drop")
             /\ HasRootCause(results[j], "payment_issue")

----------------------------------------------------------------------------
(* Properties of the detectors (specification SpecDet) *)

\* C6: no finding returned by a detector carries a raw inf or NaN score (zscore
\* of the seasonal and latency detectors, score of the EWMA detector).
C6_NoRawNonFiniteScore ==
    /\ pc \in {"seasonal_zscore", "latency"} =>
         \A i \in 1..Len(det_out.val) : ~IsRawNonFinite(det_out.val[i].zscore)
    /\ pc = "ewma" =>
         \A i \in 1..Len(det_out.val) : ~IsRawNonFinite(det_out.val[i].score)

\* C7: every finding of detect_failed_tx_spike has a zscore that is a finite
\* float or a string sentinel.
C7_SeasonalZscoreSanitized ==
    pc = "seasonal_zscore" =>
      \A i \in 1..Len(det_out.val) :
        \/ IsFinite(det_out.val[i].zscore)
        \/ det_out.val[i].zscore.kind = "str"

\* C7 witness: a bucket whose prior-window failed counts are all equal is
\* reported with the sentinel 'inf'.
C7_Witness ==
    /\ pc = "seasonal_zscore"
    /\ \E i \in 1..Len(det_out.val) : det_out.val[i].zscore = Str("inf")

\* C10: no finding of the seasonal z-score, EWMA or latency detector is for a
\* bucket whose failed count (sample count for latency) is below the configured
\* minimum.
C10_MinimumCountFloor ==
    /\ pc \in {"seasonal_zscore", "ewma"} =>
         \A i \in 1..Len(det_out.val) :
            FailedIn(tx.rows, cfg.freq, det_out.val[i].timestamp) >= cfg.min_failed
    /\ pc = "latency" =>
         \A i \in 1..Len(det_out.val) :
            SumN({g \in sys.rows : Floor(g.ts, cfg.freq) = det_out.val[i].timestamp})
               >= cfg.min_count

\* C10 witness: the latency detector returned a finding while another bucket,
\* whose z-score is above the threshold but whose sample count is below
\* min_count, is not reported.
C10_Witness ==
    /\ pc = "latency"
    /\ det_out.val # <<>>
    /\ \E row \in Range(latency_agg(sys.rows, cfg.freq, cfg.lat_window)) :
          /\ FloatGt(row.zscore, cfg.lat_z_thresh[1], cfg.lat_z_thresh[2])
          /\ row.count < cfg.min_count
          /\ \A i \in 1..Len(det_out.val) : det_out.val[i].timestamp # row.bucket

\* the floors, at the merge frequency, of the timestamps of the input events
EventBuckets == Buckets(tx.rows, Freq) \cup Buckets(sys.rows, Freq)

\* C11: the bucket of every incident of run_rca is the floor, at the merge
\* frequency, of the timestamp of at least one input event (also for incidents
\* that come from hourly revenue findings).
C11_IncidentBucketHasEvent ==
    \A j \in 1..Len(results) : results[j].incident_bucket \in EventBuckets

ParseableRows(rows) == {g \in rows : Parseable(g.ts)}

\* C12: a transaction table with some unparsable timestamps does not make
\* run_rca raise, and the failed counts are those of the parseable rows.
C12_UnparsableRowsDropped ==
    (HasUnparsable(tx.rows) /\ pc \in {"raised", "incidents", "done"})
      => /\ pc # "raised"
         /\ failed_series = [b \in Buckets(ParseableRows(tx.rows), Freq) |->
                               FailedIn(ParseableRows(tx.rows), Freq, b)]

\* C14: the incidents are listed by strictly ascending bucket.
C14_AscendingBuckets ==
    \A j, k \in 1..Len(results) :
      j < k => results[j].incident_bucket < results[k].incident_bucket

C14_Witness ==
    /\ pc = "done"
    /\ Len(results) >= 3
    /\ results[1].incident_bucket < results[3].incident_bucket

\* C15: detected_by names each detector at most once per incident, even when
\* a detector has several findings in the bucket.
C15_DetectedByIsSet ==
    \A j \in 1..Len(results) :
      \A m, n \in 1..Len(results[j].detected_by) :
        m # n => results[j].detected_by[m] # results[j].detected_by[n]

\* the table cut after bucket b: the rows of the buckets up to and including b
UpTo(file, freq, b) == [file EXCEPT !.rows = {g \in file.rows : Floor(g.ts, freq) <= b}]

\* the findings of a list that are stamped with bucket b
FindingsAt(list, b) == SelectSeq(list, LAMBDA a : a.timestamp = b)

\* two floats denote the same number
SameFloat(x, y) ==
    /\ x.cls = y.cls
    /\ x.cls = "finite" => x.sgn = y.sgn /\ x.sqnum * y.sqden = y.sqnum * x.sqden

\* C16: the EWMA detector has no look-ahead: a bucket is flagged, and scored,
\* the same on the whole series and on the series cut after that bucket.
C16_EwmaNoLookAhead ==
    (pc = "ewma" /\ det_out.exc = "none") =>
      \A b \in Buckets(tx.rows, cfg.freq) :
        LET whole == FindingsAt(det_out.val, b)
            cut   == FindingsAt(detect_ewma_failed(UpTo(tx, cfg.freq, b), cfg.freq, cfg.span,
                                                   cfg.k, cfg.min_failed).val, b)
        IN /\ Len(whole) = Len(cut)
           /\ Len(whole) = 1 => SameFloat(whole[1].score, cut[1].score)

\* the earliest bucket of a table at a frequency
Earliest(rows, freq) == Min(Buckets(rows, freq))

\* C17: the earliest bucket of the series is never reported by the seasonal,
\* EWMA, latency or revenue detector (it has no history to compare with).
C17_EarliestBucketNeverFlagged ==
    /\ (pc \in {"seasonal_zscore", "ewma"} /\ det_out.exc = "none" /\ tx.rows # {})
         => FindingsAt(det_out.val, Earliest(tx.rows, cfg.freq)) = <<>>
    /\ (pc = "latency" /\ det_out.exc = "none" /\ sys.rows # {})
         => FindingsAt(det_out.val, Earliest(sys.rows, cfg.freq)) = <<>>
    /\ (pc = "revenue" /\ det_out.exc = "none" /\ tx.rows # {})
         => LET succ == {g \in tx.rows : g.status = "success"}
            IN /\ FindingsAt(det_out.val, Earliest(tx.rows, cfg.rev_freq)) = <<>>
               /\ succ # {} => FindingsAt(det_out.val, Earliest(succ, cfg.rev_freq)) = <<>>

\* the seasonal detector reported a later bucket although the earliest one has
\* enough failures to pass the count floor
C17_Witness ==
    /\ pc = "seasonal_zscore"
    /\ det_out.exc = "none"
    /\ det_out.val # <<>>
    /\ FailedIn(tx.rows, cfg.freq, Earliest(tx.rows, cfg.freq)) >= cfg.min_failed

\* the root causes of an incident that carry a given name
CausesNamed(incident, name) ==
    SelectSeq(incident.root_causes, LAMBDA rc : rc.root_cause = name)

\* C18: an incident carries the root cause failed_tx_spike (once) iff the
\* number of non-success transactions flooring to its bucket reaches the
\* threshold of the rules (10 when the rules give none); the evidence is that
\* count and the threshold.
C18_FailedTxSpikeRule ==
    \A j \in 1..Len(results) :
      LET fc  == FailedIn(tx.rows, Freq, results[j].incident_bucket)
          thr == IF "failed_tx_spike" \in DOMAIN rules THEN rules.failed_tx_spike.threshold
                 ELSE 10
          spikes == CausesNamed(results[j], "failed_tx_spike")
      IN /\ Len(spikes) = (IF fc >= thr THEN 1 ELSE 0)
         /\ \A m \in 1..Len(spikes) :
              spikes[m].evidence = [failed_count |-> fc, threshold |-> thr]

\* without rules: one incident at the threshold of 10 with the root cause, and
\* one incident with failures below it without
C18_Witness ==
    /\ pc = "done"
    /\ rules = NoRules
    /\ \E j, k \in 1..Len(results) :
         /\ CausesNamed(results[j], "failed_tx_spike") # <<>>
         /\ FailedIn(tx.rows, Freq, results[j].incident_bucket) = 10
         /\ CausesNamed(results[k], "failed_tx_spike") = <<>>
         /\ FailedIn(tx.rows, Freq, results[k].incident_bucket) >= 5

\* the number of non-success transactions of a country flooring to a bucket
GeoCount(b, c) ==
    SumN({g \in tx.rows : g.status # "success" /\ Floor(g.ts, Freq) = b /\ g.country = c})

\* a transaction table with the columns and the timestamps the geo detector reads
GeoReadable ==
    tx.exists /\ {"status", "country"} \subseteq tx.cols /\ ~HasUnparsable(tx.rows)

SuccessIn(b) == {g \in tx.rows : g.status = "success" /\ Floor(g.ts, cfg.rev_freq) = b}

\* the buckets with a successful transaction
RevenueBuckets == {b \in Buckets(tx.rows, cfg.rev_freq) : SuccessIn(b) # {}}

\* the (at most rev_window) revenue buckets that precede bucket b
Preceding(b) ==
    {p \in RevenueBuckets :
       p < b /\ Cardinality({q \in RevenueBuckets : p < q /\ q < b}) < cfg.rev_window}

\* twice the baseline of bucket b: the median of the preceding revenues, 0 without any
Baseline2(b) ==
    LET prev == SortedSeq(Preceding(b))
    IN IF prev = <<>> THEN 0
       ELSE SeqMedian2([i \in 1..Len(prev) |-> SumAmount(SuccessIn(prev[i]))])

RowsOf(name) == {k \in 1..Len(playbooks) : playbooks[k].root_cause = name}

\* the positions of the root causes of an incident that have a playbook row
Matched(incident) ==
    {i \in 1..Len(incident.root_causes) : RowsOf(incident.root_causes[i].root_cause) # {}}

\* C21: the playbooks of an incident are, in root-cause order, the first
\* playbook-table row of each root cause that has one; a root cause without a
\* row adds nothing, so there are never more playbooks than root causes.
C21_PlaybookAttachment ==
    \A j \in 1..Len(results) :
      LET inc == results[j]
          nth(p) == CHOOSE i \in Matched(inc) :
                      Cardinality({x \in Matched(inc) : x <= i}) = p
      IN /\ Len(inc.playbooks) = Cardinality(Matched(inc))
         /\ Len(inc.playbooks) <= Len(inc.root_causes)
         /\ \A p \in 1..Len(inc.playbooks) :
              inc.playbooks[p] = playbooks[Min(RowsOf(inc.root_causes[nth(p)].root_cause))]

\* an incident with a root cause that has two rows, one that has none and
\* one that has a single row
C21_Witness ==
    /\ pc = "done"
    /\ \E j \in 1..Len(results) :
         /\ Len(results[j].playbooks) >= 2
         /\ Len(results[j].playbooks) < Len(results[j].root_causes)
         /\ Cardinality(RowsOf(results[j].root_causes[1].root_cause)) >= 2

\* the sum of the total_count column of an aggregate over the buckets in S
RECURSIVE SumTotal(_, _)
SumTotal(agg, S) ==
    IF S = {} THEN 0
    ELSE LET b == CHOOSE x \in S : TRUE IN agg[b].total_count + SumTotal(agg, S \ {b})

\* C22: for a transaction table with at least one row, the bucket aggregation
\* yields total_count values that sum to the number of rows with a parseable
\* timestamp, and in every bucket 0 <= failed_count <= total_count.
C22_TotalCountConservation ==
    (tx.exists /\ tx.rows # {} /\ "status" \in tx.cols /\ pc \in {"raised", "incidents", "done"})
      => LET agg == compute_failed_counts(tx, Freq)
         IN /\ agg.exc = "none"
            /\ pc # "raised"
            /\ SumTotal(agg.val, DOMAIN agg.val) = SumN(ParseableRows(tx.rows))
            /\ \A b \in DOMAIN agg.val :
                 0 <= agg.val[b].failed_count
                 /\ agg.val[b].failed_count <= agg.val[b].total_count

\* a system-metrics table without the latency_ms column
NoLatencyColumn == sys.exists /\ "latency_ms" \notin sys.cols

NoFindings ==
    /\ pc \in {"raised", "incidents", "done"}
    /\ z_anoms = <<>> /\ ewma_anoms = <<>> /\ latency_anoms = <<>>
    /\ revenue_anoms = <<>> /\ geo_anoms = <<>>

\* C24: when every detector returns no finding or fails, run_rca returns an
\* empty incident list without raising, before any rule or playbook is used.
C24_EmptyResult ==
    NoFindings => pc = "done" /\ exc = "none" /\ results = <<>>

----------------------------------------------------------------------------
(* stream_simulator/producer.py and stream_simulator/consumer.py            *)
(* An event file is named by its idx; the stream folder maps each file it  *)
(* holds to "partial" (created by open(path, 'w'), nothing flushed yet) or *)
(* "complete" (written and closed).                                        *)

\* run_rca and the detectors are not running
RcaIdle ==
    /\ tx = NoFile /\ sys = NoFile /\ rules = NoRules /\ playbooks = PlaybookTable
    /\ pc = "off"
    /\ z_anoms = <<>> /\ ewma_anoms = <<>> /\ latency_anoms = <<>>
    /\ revenue_anoms = <<>> /\ geo_anoms = <<>>
    /\ failed_series = <<>> /\ todo = <<>> /\ results = <<>>
    /\ exc = "none" /\ cfg = NoCfg /\ det_out = Ok(<<>>)

\* the rows of the source CSV of produce
SourceRows ==
    << [ts |-> 2, status |-> "failed", country |-> "IN", amount |-> 1, n |-> 1],
       [ts |-> 7, status |-> "success", country |-> "IN", amount |-> 1, n |-> 1] >>

\* the values of --batch that are tried
Batches == {1, 2}

\* the source row written in event file i
RowOf(i) == SourceRows[(i % Len(SourceRows)) + 1]

InitStream ==
    /\ RcaIdle /\ TailIdle /\ ApiIdle /\ ReportIdle /\ ProIdle
    /\ repeat \in BOOLEAN
    /\ batch \in Batches
    /\ stream_dir = <<>>
    /\ p_pc = "open" /\ p_idx = 0
    /\ ingested_csv = <<>>
    /\ c_pc = "list" /\ files = <<>> /\ c_count = 0 /\ c_exc = "none"
    /\ detector_runs = 0

\* produce: open(path, 'w') creates the event file
PCreate ==
    /\ p_pc = "open"
    /\ p_idx < MaxEvents
    /\ stream_dir' = [f \in DOMAIN stream_dir \cup {p_idx} |->
                        IF f = p_idx THEN "partial" ELSE stream_dir[f]]
    /\ p_pc' = "dump"
    /\ UNCHANGED <<repeat, batch, p_idx, ingested_csv, c_pc, files, c_count, c_exc,
                   detector_runs>>
    /\ UNCHANGED outside_stream

\* produce: json.dump and the end of the with block, then idx += 1
PDump ==
    /\ p_pc = "dump"
    /\ stream_dir' = [stream_dir EXCEPT ![p_idx] = "complete"]
    /\ p_idx' = p_idx + 1
    /\ p_pc' = IF (~repeat /\ p_idx + 1 = Len(SourceRows)) \/ p_idx + 1 = MaxEvents
               THEN "done" ELSE "open"
    /\ UNCHANGED <<repeat, batch, ingested_csv, c_pc, files, c_count, c_exc, detector_runs>>
    /\ UNCHANGED outside_stream

\* files[:batch] without the slice
Slice_All(listing, k) == listing

\* files[:batch]
Slice(listing, k) == SubSeq(listing, 1, IF k < Len(listing) THEN k ELSE Len(listing))

\* consume: list the folder; sleep and list again when it is empty
CList ==
    /\ c_pc = "list"
    /\ LET listing == SortedSeq(DOMAIN stream_dir)
       IN IF listing = <<>>
          THEN UNCHANGED <<files, c_count, c_pc>>
          ELSE /\ files' = Slice(listing, batch)
               /\ c_count' = 0
               /\ c_pc' = "ingest"
    /\ UNCHANGED <<repeat, batch, stream_dir, p_pc, p_idx, ingested_csv, c_exc,
                   detector_runs>>
    /\ UNCHANGED outside_stream

\* consume: json.load of the next file and the append of its row to the CSV
CIngest ==
    /\ c_pc = "ingest"
    /\ IF stream_dir[Head(files)] = "partial"
       THEN /\ c_exc' = "JSONDecodeError"
            /\ c_pc' = "crashed"
            /\ UNCHANGED ingested_csv
       ELSE /\ ingested_csv' = Append(ingested_csv, Head(files))
            /\ c_pc' = "remove"
            /\ UNCHANGED c_exc
    /\ UNCHANGED <<repeat, batch, stream_dir, p_pc, p_idx, files, c_count, detector_runs>>
    /\ UNCHANGED outside_stream

\* consume: os.remove(path) and count += 1
CRemove ==
    /\ c_pc = "remove"
    /\ stream_dir' = [f \in DOMAIN stream_dir \ {Head(files)} |-> stream_dir[f]]
    /\ files' = Tail(files)
    /\ c_count' = c_count + 1
    /\ c_pc' = IF Tail(files) = <<>> THEN "detect" ELSE "ingest"
    /\ UNCHANGED <<repeat, batch, p_pc, p_idx, ingested_csv, c_exc, detector_runs>>
    /\ UNCHANGED outside_stream

\* the ingested CSV as a table: each source row with the number of its copies
IngestedFile ==
    LET copies(r) == Cardinality({i \in 1..Len(ingested_csv) : RowOf(ingested_csv[i]) = r})
    IN [exists |-> TRUE, cols |-> TxCols,
        rows |-> {[SourceRows[k] EXCEPT !.n = copies(SourceRows[k])] :
                    k \in {j \in 1..Len(SourceRows) : copies(SourceRows[j]) > 0}}]

\* consume: if count > 0, detect_failed_tx_spike(ingested_csv)
CDetect ==
    /\ c_pc = "detect"
    /\ IF c_count > 0
       THEN LET r == detect_failed_tx_spike(IngestedFile, 5, 6, <<1, 1>>, 5)
            IN IF r.exc # "none"
               THEN c_exc' = r.exc /\ c_pc' = "crashed" /\ UNCHANGED detector_runs
               ELSE detector_runs' = detector_runs + 1 /\ c_pc' = "list" /\ UNCHANGED c_exc
       ELSE c_pc' = "list" /\ UNCHANGED <<c_exc, detector_runs>>
    /\ UNCHANGED <<repeat, batch, stream_dir, p_pc, p_idx, ingested_csv, files, c_count>>
    /\ UNCHANGED outside_stream

Producer == PCreate \/ PDump
Consumer == CList \/ CIngest \/ CRemove \/ CDetect

NextStream ==
    \/ PCreate
    \/ PDump
    \/ CList
    \/ CIngest
    \/ CRemove
    \/ CDetect

SpecStream == InitStream /\ [][NextStream]_all_vars

\* both programs keep running
SpecStreamFair == SpecStream /\ WF_all_vars(Producer) /\ WF_all_vars(Consumer)

\* the event files created so far
Created == (0..(p_idx - 1)) \cup DOMAIN stream_dir

\* the rows appended to the CSV in the cycle that is under way
InCycle ==
    IF c_pc \in {"ingest", "remove", "detect", "crashed"}
    THEN c_count + (IF c_pc = "remove" THEN 1 ELSE 0)
    ELSE 0

\* C25: over every interleaving of producer and consumer, an event file is
\* removed from the stream folder only after its row was appended to the
\* ingested CSV, no event file is appended twice, and a cycle ingests at most
\* `batch` files before it runs the detector once.
C25_IngestThenRemove ==
    /\ \A f \in Created : f \notin DOMAIN stream_dir => f \in Range(ingested_csv)
    /\ \A m, n \in 1..Len(ingested_csv) : m # n => ingested_csv[m] # ingested_csv[n]
    /\ c_count <= batch
    /\ c_pc = "detect" => c_count >= 1
    /\ Len(ingested_csv) - InCycle <= batch * detector_runs
    /\ detector_runs <= Len(ingested_csv) - InCycle

\* two full cycles of two files each
C25_Witness ==
    /\ batch = 2
    /\ detector_runs = 2
    /\ Len(ingested_csv) = 4
    /\ DOMAIN stream_dir = {}

\* C26: with producer and consumer both kept running, every event file that
\* is written is eventually appended to the ingested CSV and removed from the
\* stream folder, and the consumer never stops on a file that the producer
\* has created but not finished writing.
C26_EveryEventIngested ==
    /\ [](c_exc # "JSONDecodeError")
    /\ \A f \in 0..(MaxEvents - 1) :
         (f \in DOMAIN stream_dir)
           ~> (f \notin DOMAIN stream_dir /\ f \in Range(ingested_csv))

----------------------------------------------------------------------------
(* streaming/producer.py and streaming/consumer.py                          *)

InitTail ==
    /\ RcaIdle /\ StreamIdle /\ ApiIdle /\ ReportIdle /\ ProIdle
    /\ stream_file = [exists |-> FALSE, rows |-> 0]
    /\ total_rows \in 1..MaxRows
    /\ sp_pc = "start" /\ sent = 0 /\ runs = 1
    /\ last_seen_rows = 0
    /\ appended = 0
    /\ report = NoReport

\* producer: an existing stream file is renamed to stream_events_previous.csv
TArchive ==
    /\ sp_pc = "start"
    /\ stream_file' = [exists |-> FALSE, rows |-> 0]
    /\ sp_pc' = "open"
    /\ UNCHANGED <<total_rows, sent, runs, last_seen_rows, appended, report>>
    /\ UNCHANGED outside_tail

\* producer: open(STREAM_FILE, "w") creates the file, empty
TOpen ==
    /\ sp_pc = "open"
    /\ stream_file' = [exists |-> TRUE, rows |-> 0]
    /\ sent' = 0
    /\ sp_pc' = "write"
    /\ UNCHANGED <<total_rows, runs, last_seen_rows, appended, report>>
    /\ UNCHANGED outside_tail

\* producer: one row (after the header, for the first) is written and flushed
TWrite ==
    /\ sp_pc = "write"
    /\ sent < total_rows
    /\ stream_file' = [stream_file EXCEPT !.rows = @ + 1]
    /\ sent' = sent + 1
    /\ appended' = appended + 1
    /\ sp_pc' = IF sent + 1 = total_rows THEN "finished" ELSE "write"
    /\ UNCHANGED <<total_rows, runs, last_seen_rows, report>>
    /\ UNCHANGED outside_tail

\* the producer is started again
TRestart ==
    /\ sp_pc = "finished"
    /\ runs < MaxRuns
    /\ runs' = runs + 1
    /\ sp_pc' = "start"
    /\ UNCHANGED <<stream_file, total_rows, sent, last_seen_rows, appended, report>>
    /\ UNCHANGED outside_tail

\* consumer: one turn of the loop.  A missing file and a file that cannot be
\* read (an empty one) are waited for; an unchanged row count is skipped.
TPoll ==
    /\ IF ~stream_file.exists \/ stream_file.rows = 0
          \/ stream_file.rows = last_seen_rows
       THEN UNCHANGED <<last_seen_rows, appended, report>>
       ELSE /\ report' = [new_rows     |-> stream_file.rows - last_seen_rows,
                          current_rows |-> stream_file.rows,
                          appended     |-> appended]
            /\ last_seen_rows' = stream_file.rows
            /\ appended' = 0
    /\ sp_pc # "off"
    /\ UNCHANGED <<stream_file, total_rows, sp_pc, sent, runs>>
    /\ UNCHANGED outside_tail

NextTail ==
    \/ TArchive
    \/ TOpen
    \/ TWrite
    \/ TRestart
    \/ TPoll

SpecTail == InitTail /\ [][NextTail]_all_vars

\* C27: every metrics report of the live consumer announces at least one new
\* row, and as many new rows as were appended to the stream file since the
\* previous report, also after the producer was restarted and replaced the
\* stream file.
C27_ReportCountsNewRows ==
    report # NoReport =>
      /\ report.new_rows >= 1
      /\ report.new_rows = report.appended

----------------------------------------------------------------------------
(* api/fastapi_app.py : discover_detectors, run_detector_function,          *)
(* safe_call_detector, run_detectors.  tx is data/transactions.csv.        *)

\* the module names that can be found in detectors/, in ascending order;
\* detectors.utils stands for a module without a detect function
ModuleOrder ==
    << "detectors.ewma", "detectors.geo", "detectors.latency", "detectors.revenue",
       "detectors.run_all_detectors", "detectors.run_extra_detectors",
       "detectors.seasonal_zscore", "detectors.utils" >>
ModuleNames == Range(ModuleOrder)

\* the first attribute of the module, in dir() order, that starts with detect_
ChosenName(module) ==
    CASE module = "detectors.ewma" -> "detect_ewma_failed"
      [] module = "detectors.geo" -> "detect_geo_failures"
      [] module = "detectors.latency" -> "detect_latency_spike"
      [] module = "detectors.revenue" -> "detect_revenue_drop"
      [] module = "detectors.run_all_detectors" -> "detect_ewma_failed"
      [] module = "detectors.run_extra_detectors" -> "detect_geo_failures"
      [] module = "detectors.seasonal_zscore" -> "detect_failed_tx_spike"
      [] OTHER -> None

\* the detect functions whose csv_path has no default
NeedsPath == {"detect_ewma_failed", "detect_latency_spike", "detect_failed_tx_spike"}

\* func(csv_path) with every other parameter at its default
CallWithDefaults(func, file) ==
    CASE func = "detect_ewma_failed" -> detect_ewma_failed(file, 5, 6, 3, 5)
      [] func = "detect_geo_failures" -> detect_geo_failures(file, 5, 5)
      [] func = "detect_latency_spike" -> detect_latency_spike(file, <<>>)
      [] func = "detect_revenue_drop" -> detect_revenue_drop(file, 60, 6, <<7, 10>>, 1)
      [] func = "detect_failed_tx_spike" -> detect_failed_tx_spike(file, 5, 6, <<1, 1>>, 5)

\* sanitize_for_json of a float or a string
sanitize_value(x) == IF x.kind = "float" /\ ~IsFinite(x) THEN Str(x.cls) ELSE x

\* sanitize_for_json of a finding list (the scores are its only floats)
sanitize_for_json(res) ==
    [j \in 1..Len(res) |->
       [f \in DOMAIN res[j] |->
          IF f \in {"zscore", "score"} THEN sanitize_value(res[j][f]) ELSE res[j][f]]]

\* discover_detectors without the sort (glob order, here descending)
discover_detectors_Unsorted(dir) ==
    LET s == SelectSeq(ModuleOrder, LAMBDA m : m \in dir)
    IN [i \in 1..Len(s) |-> s[Len(s) + 1 - i]]

\* the modules of detectors/, sorted
discover_detectors(dir) == SelectSeq(ModuleOrder, LAMBDA m : m \in dir)

\* func() first; on TypeError func(csv_path) with data/transactions.csv, or
\* func(str(DATA_DIR)) when that file does not exist
safe_call_detector(func, module_name) ==
    LET first == IF func \in NeedsPath THEN Raise("TypeError")
                 ELSE CallWithDefaults(func, tx)
        res == IF first.exc = "TypeError"
               THEN (IF tx.exists THEN CallWithDefaults(func, tx)
                     ELSE Raise("IsADirectoryError"))
               ELSE first
    IN IF res.exc = "none"
       THEN [detector |-> module_name, result |-> sanitize_for_json(res.val)]
       ELSE [detector |-> module_name, error |-> <<"runtime error: ", res.exc>>,
             traceback |-> res.exc]

\* the record of one module; its detector field is <<module>> or <<module, function>>
run_detector_function(module_name) ==
    IF module_name \in broken
    THEN [detector |-> <<module_name>>, error |-> <<"import/runtime error: ", "ImportError">>,
          traceback |-> "ImportError"]
    ELSE IF ChosenName(module_name) = None
    THEN [detector |-> <<module_name>>, error |-> <<"no detect function found">>]
    ELSE safe_call_detector(ChosenName(module_name), <<module_name, ChosenName(module_name)>>)

\* data/transactions.csv as the API finds it
ApiTxFiles ==
    {NoFile} \cup [exists : {TRUE}, cols : {TxCols, TxCols \ {"status"}},
                   rows : SubsetsUpTo(FlatGroups, MaxApiGroups)]

InitApi ==
    /\ tx \in ApiTxFiles
    /\ sys = NoFile /\ rules = NoRules /\ playbooks = PlaybookTable
    /\ pc = "off"
    /\ z_anoms = <<>> /\ ewma_anoms = <<>> /\ latency_anoms = <<>>
    /\ revenue_anoms = <<>> /\ geo_anoms = <<>>
    /\ failed_series = <<>> /\ todo = <<>> /\ results = <<>>
    /\ exc = "none" /\ cfg = NoCfg /\ det_out = Ok(<<>>)
    /\ StreamIdle /\ TailIdle /\ ReportIdle /\ ProIdle
    /\ detectors_dir \in {d \in SUBSET ModuleNames :
                            ModuleNames \ d \subseteq {"detectors.utils", "detectors.run_all_detectors",
                                                       "detectors.run_extra_detectors"}}
    /\ broken \in {b \in SUBSET detectors_dir : Cardinality(b) <= 1}
    /\ api_pc = "discover"
    /\ modules = <<>>
    /\ out = <<>>

\* modules = discover_detectors()
ApiDiscover ==
    /\ api_pc = "discover"
    /\ modules' = discover_detectors(detectors_dir)
    /\ api_pc' = IF discover_detectors(detectors_dir) = <<>> THEN "done" ELSE "run"
    /\ UNCHANGED <<detectors_dir, broken, out>>
    /\ UNCHANGED outside_api

\* one turn of "for module in modules"
ApiRunModule ==
    /\ api_pc = "run"
    /\ out' = Append(out, run_detector_function(Head(modules)))
    /\ modules' = Tail(modules)
    /\ api_pc' = IF Tail(modules) = <<>> THEN "done" ELSE "run"
    /\ UNCHANGED <<detectors_dir, broken>>
    /\ UNCHANGED outside_api

NextApi ==
    \/ ApiDiscover
    \/ ApiRunModule

SpecApi == InitApi /\ [][NextApi]_all_vars

\* the position of a module name in ascending name order
Rank(m) == CHOOSE i \in 1..Len(ModuleOrder) : ModuleOrder[i] = m

\* C28: run_detectors returns exactly one record per discovered module, in
\* ascending module-name order, each with exactly one of 'result' and
\* 'error'; a failing import, a missing detect function or an exception of
\* one detector is recorded and the remaining modules are still run.
C28_OneRecordPerModule ==
    /\ \A i \in 1..Len(out) :
         /\ out[i].detector[1] \in detectors_dir
         /\ ("result" \in DOMAIN out[i]) # ("error" \in DOMAIN out[i])
         /\ out[i].detector[1] \in broken => "error" \in DOMAIN out[i]
    /\ \A i, j \in 1..Len(out) :
         i < j => Rank(out[i].detector[1]) < Rank(out[j].detector[1])
    /\ api_pc = "done" => {out[i].detector[1] : i \in 1..Len(out)} = detectors_dir
    /\ api_pc \in {"discover", "run", "done", "off"}

\* a finished request with a failed import, a module without a detect
\* function, a detector that raised and a detector that returned, and records
\* after the failures
C28_Witness ==
    /\ api_pc = "done"
    /\ \E i, j, k, l \in 1..Len(out) :
         /\ out[i].detector[1] \in broken
         /\ i < Len(out)
         /\ "error" \in DOMAIN out[j] /\ out[j].error = <<"no detect function found">>
         /\ "error" \in DOMAIN out[k] /\ out[k].error[1] = "runtime error: "
         /\ "result" \in DOMAIN out[l]

----------------------------------------------------------------------------
(* tools/generate_report.py : load_rca_data, run after (or without) run_rca *)

\* the names of the fallback files, in the order in which they are tried
FallbackNames == <<"rca.json", "incidents_full.json", "incidents.json">>

\* what a fallback file holds: incidents of an earlier run
StaleIncidents ==
    << [incident_bucket |-> 0 - 5, detected_by |-> <<"seasonal_zscore">>,
        root_causes |-> <<>>, playbooks |-> <<>>] >>

\* the states of the three fallback files that are tried
DataJsonStates ==
    { <<"absent", "absent", "absent">>,
      <<"ok", "absent", "ok">>,
      <<"corrupt", "absent", "ok">> }

\* the Python type of what run_rca returns: results is a list
RunRcaReturnType == "list"

\* step 2 and step 3: the first fallback file that exists and parses, else
\* the empty structure
Fallback(json_files) ==
    LET usable == {i \in 1..Len(json_files) : json_files[i] = "ok"}
    IN IF usable = {} THEN [source |-> "empty", incidents |-> <<>>]
       ELSE [source |-> FallbackNames[Min(usable)], incidents |-> StaleIncidents]

\* load_rca_data; returned says whether run_rca was imported, called and
\* returned r without raising
load_rca_data(returned, r) ==
    IF returned /\ RunRcaReturnType = "dict"
    THEN [source |-> "run_rca", incidents |-> r]
    ELSE Fallback(data_json)

ReportTxFiles ==
    [exists : {TRUE}, cols : {TxCols, TxCols \ {"status"}},
     rows : SubsetsUpTo(TxGroups, MaxReportGroups)]

InitReport ==
    /\ StreamIdle /\ TailIdle /\ ApiIdle /\ ProIdle
    /\ tx \in ReportTxFiles /\ sys = NoFile
    /\ rules = NoRules
    /\ playbooks = PlaybookTable
    /\ rca_importable \in BOOLEAN
    /\ data_json \in DataJsonStates
    /\ rca_data = NoData
    /\ pc = IF rca_importable THEN "seasonal_zscore" ELSE "fallback"
    /\ z_anoms = <<>> /\ ewma_anoms = <<>> /\ latency_anoms = <<>>
    /\ revenue_anoms = <<>> /\ geo_anoms = <<>>
    /\ failed_series = <<>> /\ todo = <<>> /\ results = <<>>
    /\ exc = "none" /\ cfg = NoCfg /\ det_out = Ok(<<>>)

\* the rest of load_rca_data once run_rca has returned, has raised or could
\* not be imported
LoadRcaData ==
    /\ pc \in {"done", "raised", "fallback"}
    /\ rca_data' = load_rca_data(pc = "done", results)
    /\ pc' = "returned"
    /\ UNCHANGED <<tx, sys, rules, playbooks, z_anoms, ewma_anoms, latency_anoms,
                   revenue_anoms, geo_anoms, failed_series, todo, results, exc, cfg, det_out>>
    /\ UNCHANGED <<rca_importable, data_json>>
    /\ UNCHANGED outside_report

NextReport ==
    \/ RunSeasonal
    \/ RunEwma
    \/ RunLatency
    \/ RunRevenue
    \/ RunGeo
    \/ LoadAndCollect
    \/ ProcessBucket
    \/ LoadRcaData

SpecReport == InitReport /\ [][NextReport]_all_vars

\* C29: load_rca_data returns the incident records of run_rca whenever
\* run_rca could be imported and returned without raising; the JSON files and
\* then the empty structure are used only otherwise.
C29_ReportUsesRunRca ==
    pc = "returned" =>
      /\ (rca_importable /\ exc = "none") => rca_data.incidents = results
      /\ rca_data.source \in Range(FallbackNames) \cup {"empty"}
           => (~rca_importable \/ exc # "none")

\* ---------------------------------------------------------------------------
\* api/fastapi_app.py : GET /report_pro, and the generator it starts,
\* api/generate_report_pro.py
\* ---------------------------------------------------------------------------

\* requests served in one behaviour
MaxRequests == 6

\* the writer recorded in out_path when the generator was run from a shell
CliWriter == 0 - 1

\* the options main() of generate_report_pro.py declares
DeclaredOptions == {"--out", "--name"}

\* the options of the command report_pro builds
ReportProCmd == {"--out", "--name", "--api"}

\* the options of a run from a shell that writes the same file
ShellCmd == {"--out", "--name"}

\* generate_report_pro.py main(): argparse leaves with code 2 on an option it
\* does not declare; fetch_incidents / fetch_rca raise when the API does not
\* answer (code 1); otherwise build_pdf writes the file
generate_report_pro(cmd, api_up) ==
    IF ~(cmd \subseteq DeclaredOptions) THEN [returncode |-> 2, writes |-> FALSE]
    ELSE IF ~api_up THEN [returncode |-> 1, writes |-> FALSE]
    ELSE [returncode |-> 0, writes |-> TRUE]

InitPro ==
    /\ RcaIdle /\ StreamIdle /\ TailIdle /\ ApiIdle /\ ReportIdle
    /\ out_path \in {0, CliWriter}
    /\ request = 0 /\ force = FALSE /\ rp_pc = "off" /\ proc = "none"
    /\ response = NoResponse
    /\ report_script \in BOOLEAN

\* the generator is run from a shell with --out data/AOHI_FromAPI.pdf
RunFromShell ==
    /\ report_script
    /\ \E api_up \in BOOLEAN :
         LET g == generate_report_pro(ShellCmd, api_up)
         IN  /\ g.writes
             /\ out_path # CliWriter
             /\ out_path' = CliWriter
    /\ UNCHANGED <<request, force, rp_pc, proc, response, report_script>>
    /\ UNCHANGED outside_pro

\* report_pro, up to the call of subprocess.run: without the script the answer
\* is 500 at once; with force, an existing output file is removed first, and a
\* failure of unlink is passed over
RpStart ==
    /\ rp_pc = "off"
    /\ request < MaxRequests
    /\ request' = request + 1
    /\ proc' = "none"
    /\ \E f \in BOOLEAN, unlinked \in BOOLEAN :
         /\ force' = f
         /\ IF ~report_script
            THEN /\ response' = [status |-> 500, pdf |-> 0]
                 /\ rp_pc' = "off"
                 /\ out_path' = out_path
            ELSE /\ response' = NoResponse
                 /\ rp_pc' = "run"
                 /\ out_path' = IF f /\ out_path # 0 /\ unlinked THEN 0 ELSE out_path
    /\ UNCHANGED report_script
    /\ UNCHANGED outside_pro

\* subprocess.run(cmd, timeout=timeout): the child ends, or the timeout
\* expires first
RpSubprocess ==
    /\ rp_pc = "run"
    /\ \E timed_out \in BOOLEAN, api_up \in BOOLEAN :
         LET g == generate_report_pro(ReportProCmd, api_up)
         IN  IF timed_out
             THEN /\ proc' = "TimeoutExpired"
                  /\ out_path' = out_path
             ELSE /\ proc' = IF g.returncode = 0 THEN "rc0"
                             ELSE IF g.returncode = 1 THEN "rc1" ELSE "rc2"
                  /\ out_path' = IF g.writes THEN request ELSE out_path
    /\ rp_pc' = "ran"
    /\ UNCHANGED <<request, force, response, report_script>>
    /\ UNCHANGED outside_pro

\* report_pro, after subprocess.run: the return code is not looked at; the
\* answer is the file when it exists
RpAnswer ==
    /\ rp_pc = "ran"
    /\ response' = IF proc = "TimeoutExpired" THEN [status |-> 500, pdf |-> 0]
                   ELSE IF out_path # 0 THEN [status |-> 200, pdf |-> out_path]
                   ELSE [status |-> 500, pdf |-> 0]
    /\ rp_pc' = "off"
    /\ UNCHANGED <<out_path, request, force, proc, report_script>>
    /\ UNCHANGED outside_pro

NextPro == RunFromShell \/ RpStart \/ RpSubprocess \/ RpAnswer

SpecPro == InitPro /\ [][NextPro]_all_vars

\* the request has been answered
Answered == request > 0 /\ rp_pc = "off" /\ response # NoResponse

\* C30: an answer with a PDF carries the file the generator of the same request
\* wrote, and a request whose generator failed or timed out is answered with
\* status 500, with force and without
C30_PdfIsFromThisRequest ==
    Answered =>
        /\ (response.status = 200 => response.pdf = request)
        /\ (proc \in {"rc1", "rc2", "TimeoutExpired"} => response.status = 500)

====
